---- MODULE Spec2Model ----
(***************************************************************************)
(* State machine of the socket.io relay server (server.js, July 22 2025):  *)
(* the client-data maps cD.*, the transport's connection and group state,  *)
(* the per-connection idle timers, and one action per event handler.       *)
(***************************************************************************)
EXTENDS Integers, Sequences, FiniteSets, TLC

\* ------------------------------------------------------------------ bounds
\* Number of connections the server accepts in a run (cD.connectionIndex).
MaxConn == 3

\* Room names clients ask for.
RoomNames == {"A", "B"}

\* Client-supplied handshake hints (socket.handshake.auth).
Modes == {"normal", "re-connect", "other"}
CurrentNames == {"undefined", "u1", "u2"}
NickHints == {"undefined", "Al"}
TeamHints == {"undefined", "T"}

\* roomJoin payload field hostOrClient ("undefined": the field is omitted).
HostOrClientHints == {"host", "client", "undefined"}

\* Chat texts: an ordinary text and the two host-only commands.
ChatTexts == {"hi", "dcir", "rr"}

\* ------------------------------------------------------- JavaScript values
\* undefined and null; as an object key each coerces to its own spelling.
UNDEF == "undefined"
NULL == "null"

Truthy(v) == v \notin {UNDEF, NULL, ""}

\* m[k] of a JavaScript object: undefined when the key is absent.
Get(m, k) == IF k \in DOMAIN m THEN m[k] ELSE UNDEF

\* m[k] = v
Put(m, k, v) == [x \in (DOMAIN m) \cup {k} |-> IF x = k THEN v ELSE m[x]]

\* delete m[k]
Delete(m, k) == [x \in (DOMAIN m) \ {k} |-> m[x]]

EmptyMap == [x \in {} |-> UNDEF]

\* String.prototype.slice(1), and a variant that keeps nothing.
Slice1_Nothing(s) == ""

Slice1(s) == IF s = "" THEN "" ELSE Tail(s)

\* The transport's id of the n-th accepted connection (fresh, never reused).
SocketId(n) == "s" \o ToString(n)

\* ------------------------------------------------------------------- state
VARIABLES
    connectionIndex,  \* cD.connectionIndex
    nameIndex,        \* cD.nameIndex
    userName,         \* cD.userName : socket id -> user name
    nickName,         \* cD.nickName : socket id -> nick name
    teamName,         \* cD.teamName : socket id -> team name
    id,               \* cD.id       : user name -> socket id
    room,             \* cD.room     : socket id -> room name
    hostID,           \* cD.hostID   : room name -> socket id
    connected,        \* transport: the sockets that are connected
    joined,           \* transport: socket id -> groups entered with socket.join
    warningTimer,     \* socket id -> the warning timeout is pending
    logoffTimer,      \* socket id -> the logoff timeout is pending
    idleTime_m,       \* socket id -> idleTime_m of that connection's closure
    orphans,          \* pending timeouts that no handle refers to any more
    now,              \* minutes since the process started
    crashed,          \* an uncaught exception has ended the process
    hostAck,          \* history: socket id -> rooms it was told it hosts
    last,             \* the event handled by the last step
    sent              \* the emissions of the last step

vars == <<connectionIndex, nameIndex, userName, nickName, teamName, id, room,
          hostID, connected, joined, warningTimer, logoffTimer, idleTime_m,
          orphans, now, crashed, hostAck, last, sent>>

cDvars == <<nameIndex, userName, nickName, teamName, id, room, hostID>>
timerVars == <<warningTimer, logoffTimer, idleTime_m, orphans>>

\* ----------------------------------------------------------------- helpers
setDefault(theValue, theDefault) ==
    IF theValue # UNDEF THEN theValue ELSE theDefault

nameInUse(nameToCheck, nameMap) ==
    \E socket_id \in DOMAIN nameMap : nameMap[socket_id] = nameToCheck

\* The host test every handler uses: socket.id == cD.hostID[cD.room[socket.id]]
IsHost_Anyone(clientID) == TRUE

IsHost(clientID) == Get(hostID, Get(room, clientID)) = clientID

\* The maps of cD as one value, for the code that runs on the maps as an
\* earlier statement of the same handler left them.
cDNow == [userName |-> userName, nickName |-> nickName, teamName |-> teamName,
          id |-> id, room |-> room, hostID |-> hostID]

\* setDisplayName on the maps cd.
DisplayNameIn(cd, clientID, mode) ==
    LET name == IF Get(cd.hostID, Get(cd.room, clientID)) = clientID
                THEN "host" ELSE Get(cd.userName, clientID)
        teamString == IF Truthy(Get(cd.teamName, clientID))
                      THEN "." \o Get(cd.teamName, clientID) ELSE ""
    IN  IF Truthy(Get(cd.nickName, clientID))
        THEN IF mode = "comma"
             THEN Get(cd.nickName, clientID) \o teamString \o ", " \o name
             ELSE IF mode = "prens"
                  THEN Get(cd.nickName, clientID) \o teamString \o " (" \o name \o ")"
                  ELSE UNDEF
        ELSE name

setDisplayName(clientID, mode) == DisplayNameIn(cDNow, clientID, mode)

\* The do/while of the connection handler: the counter after minting.
RECURSIVE MintIndex(_, _)
RECURSIVE MintLowest(_, _)
MintLowest(idx, nameMap) ==
    IF nameInUse("u" \o ToString(idx + 1), nameMap)
    THEN MintLowest(idx + 1, nameMap)
    ELSE idx + 1

\* Variants of the loop: one that restarts the search at u1, one that does
\* not test the name it mints.
MintIndex_FromOne(idx, nameMap) == MintLowest(0, nameMap)

MintIndex_NoSkip(idx, nameMap) == idx + 1

MintIndex(idx, nameMap) ==
    IF nameInUse("u" \o ToString(idx + 1), nameMap)
    THEN MintIndex(idx + 1, nameMap)
    ELSE idx + 1

\* The four cD maps the connection handler writes for a new socket.
RegisterMaps(sid, user_name, nick_name, team_name) ==
    /\ userName' = Put(userName, sid, user_name)
    /\ nickName' = Put(nickName, sid, nick_name)
    /\ teamName' = Put(teamName, sid, team_name)
    /\ id' = Put(id, user_name, sid)

\* removeUserFromMaps on the maps cd: the maps it leaves.
RemovedFrom(cd, clientID) ==
    [hostID |-> IF Get(cd.hostID, Get(cd.room, clientID)) = clientID
                THEN Delete(cd.hostID, Get(cd.room, clientID))
                ELSE cd.hostID,
     id |-> Delete(cd.id, Get(cd.userName, clientID)),
     userName |-> Delete(cd.userName, clientID),
     nickName |-> IF Truthy(Get(cd.nickName, clientID))
                  THEN Delete(cd.nickName, clientID) ELSE cd.nickName,
     teamName |-> IF Truthy(Get(cd.teamName, clientID))
                  THEN Delete(cd.teamName, clientID) ELSE cd.teamName,
     room |-> Delete(cd.room, clientID)]

\* The maps become cd.
BecomeMaps(cd) ==
    /\ hostID' = cd.hostID
    /\ id' = cd.id
    /\ userName' = cd.userName
    /\ nickName' = cd.nickName
    /\ teamName' = cd.teamName
    /\ room' = cd.room

removeUserFromMaps(clientID) == BecomeMaps(RemovedFrom(cDNow, clientID))

\* ------------------------------------------------------------- transport
\* io.to(addr).emit: every connected socket in the group addr; each socket is
\* in the group named by its own id. A variant broadcasts to everyone when
\* the address is undefined.
ioTo_AllWhenUndefined(addr, conn, grp) ==
    IF addr = "undefined" THEN conn ELSE {s \in conn : s = addr \/ addr \in grp[s]}

\* A variant that broadcasts to everyone when the address names no connected
\* socket and no group.
ioTo_AllWhenNobody(addr, conn, grp) ==
    IF {s \in conn : s = addr \/ addr \in grp[s]} = {} THEN conn
    ELSE {s \in conn : s = addr \/ addr \in grp[s]}

ioTo(addr, conn, grp) == {s \in conn : s = addr \/ addr \in grp[s]}

\* socket.to(addr).emit: the same, without the sender.
socketTo(sender, addr, conn, grp) == ioTo(addr, conn, grp) \ {sender}

\* One emission: the address, the event, its payload (the tuple of its fields)
\* and the sockets that receive it.
Emission(addr, ev, arg, rcv) == [to |-> addr, ev |-> ev, arg |-> arg, rcv |-> rcv]

Event(ev, sid, a, b) == [ev |-> ev, id |-> sid, a |-> a, b |-> b]

\* ------------------------------------------------------------ idle timers
\* setTimer(reset, t_min = 40.0)
DefaultIdle_m == 40
\* let extraTime_m = 5.0
ExtraTime_m == 5
\* (idleTime_m >= 180.0)
IdleCap_m == 180

\* A timeout handle: pending until it fires or is cleared; due at minute "at".
Scheduled(at) == [pending |-> TRUE, at |-> at]
Cleared == [pending |-> FALSE, at |-> 0]

\* The delay of the warning timeout: (t_min/2.0) minutes; a variant that
\* waits the whole budget.
WarningDelay_Whole(t_min) == t_min

WarningDelay(t_min) == t_min \div 2

\* The pending timeouts the handles of the connection sid refer to.
Handled(sid) ==
    {[sid |-> sid, kind |-> "warning", at |-> warningTimer[s].at] :
        s \in {x \in {sid} \cap DOMAIN warningTimer : warningTimer[x].pending}}
        \cup
    {[sid |-> sid, kind |-> "logoff", at |-> logoffTimer[s].at] :
        s \in {x \in {sid} \cap DOMAIN logoffTimer : logoffTimer[x].pending}}

\* The timeouts setTimer leaves pending with no handle: 'restart' and 'extend'
\* clear both handles before they are assigned, 'initialize' assigns them
\* as they are; a variant whose 'restart' does not clear them either.
Orphaned_RestartKeeps(sid, reset) ==
    IF reset \in {"initialize", "restart"} THEN Handled(sid) ELSE {}

Orphaned(sid, reset) ==
    IF reset = "initialize" THEN Handled(sid) ELSE {}

\* Variants of setTimer: one whose "restart" leaves idleTime_m as it is, one
\* whose "extend" schedules a warning as well.
setTimer_KeepsBudget(sid, reset, t_min, idle) ==
    /\ idleTime_m' = IF reset = "initialize" THEN Put(idle, sid, t_min) ELSE idle
    /\ warningTimer' = IF reset # "extend"
                       THEN Put(warningTimer, sid, Scheduled(now + WarningDelay(t_min)))
                       ELSE Put(warningTimer, sid, Cleared)
    /\ logoffTimer' = Put(logoffTimer, sid, Scheduled(now + t_min))
    /\ orphans' = orphans \cup Orphaned(sid, reset)

setTimer_ExtendWarns(sid, reset, t_min, idle) ==
    /\ idleTime_m' = IF reset \in {"initialize", "restart"}
                     THEN Put(idle, sid, t_min) ELSE idle
    /\ warningTimer' = Put(warningTimer, sid, Scheduled(now + WarningDelay(t_min)))
    /\ logoffTimer' = Put(logoffTimer, sid, Scheduled(now + t_min))
    /\ orphans' = orphans \cup Orphaned(sid, reset)

\* setTimer of the connection sid; idle is idleTime_m as the caller left it.
setTimer(sid, reset, t_min, idle) ==
    /\ idleTime_m' = IF reset \in {"initialize", "restart"}
                     THEN Put(idle, sid, t_min) ELSE idle
    /\ warningTimer' = IF reset # "extend"
                       THEN Put(warningTimer, sid, Scheduled(now + WarningDelay(t_min)))
                       ELSE Put(warningTimer, sid, Cleared)
    /\ logoffTimer' = Put(logoffTimer, sid, Scheduled(now + t_min))
    /\ orphans' = orphans \cup Orphaned(sid, reset)

\* if ((n_users == 1) || (idleTime_m >= 180.0)): the host is evicted; a
\* variant without the cap.
HostEvicted_NoCap(n_users, idle) == n_users = 1

HostEvicted(n_users, idle) == n_users = 1 \/ idle >= IdleCap_m

\* ------------------------------------------------------------------- init
Init ==
    /\ connectionIndex = 0
    /\ nameIndex = 0
    /\ userName = EmptyMap
    /\ nickName = EmptyMap
    /\ teamName = EmptyMap
    /\ id = EmptyMap
    /\ room = EmptyMap
    /\ hostID = EmptyMap
    /\ connected = {}
    /\ joined = EmptyMap
    /\ warningTimer = EmptyMap
    /\ logoffTimer = EmptyMap
    /\ idleTime_m = EmptyMap
    /\ orphans = {}
    /\ now = 0
    /\ crashed = FALSE
    /\ hostAck = EmptyMap
    /\ last = Event("start", "", "", "")
    /\ sent = {}

\* The sockets accepted so far, connected or gone.
AllSockets == {SocketId(n) : n \in 1..connectionIndex}

\* ------------------------------------------------------------- connection
\* io.on('connection'): a socket connects with the hints mode, currentName,
\* nickName and teamName.
Connect(mode, currentName, nickHint, teamHint) ==
    /\ ~crashed
    /\ connectionIndex < MaxConn
    /\ LET sid == SocketId(connectionIndex + 1)
           minted == MintIndex(nameIndex, userName)
           user_name == IF mode = "normal" THEN "u" \o ToString(minted)
                        ELSE IF mode = "re-connect" THEN currentName
                        ELSE UNDEF
           nick0 == setDefault(nickHint, NULL)
           collides == Truthy(nick0) /\ nameInUse(nick0, nickName)
           team_name == setDefault(teamHint, NULL)
       IN  /\ connectionIndex' = connectionIndex + 1
           /\ nameIndex' = IF mode = "normal" THEN minted ELSE nameIndex
           /\ last' = [ev |-> "connection", id |-> sid, a |-> mode,
                       b |-> currentName, nick |-> nickHint]
           /\ IF collides /\ user_name = UNDEF
              THEN \* user_name.slice(1) of undefined: uncaught TypeError
                   /\ crashed' = TRUE
                   /\ sent' = {}
                   /\ UNCHANGED <<userName, nickName, teamName, id, room, hostID,
                                  connected, joined, timerVars, now, hostAck>>
              ELSE /\ RegisterMaps(sid, user_name,
                                   IF collides THEN nick0 \o Slice1(user_name)
                                   ELSE nick0,
                                   team_name)
                   /\ connected' = connected \cup {sid}
                   /\ joined' = Put(joined, sid, {})
                   /\ hostAck' = Put(hostAck, sid, {})
                   /\ setTimer(sid, "initialize", DefaultIdle_m, idleTime_m)
                   /\ sent' = IF sid # Get(hostID, Get(room, sid))
                              THEN {Emission(sid, "your name is", <<user_name>>, {sid})}
                              ELSE {}
                   /\ UNCHANGED <<room, hostID, now, crashed>>

\* --------------------------------------------------------------- roomJoin
\* if (cD.hostID[roomName]): the room has a recorded host.
RoomHasHost_Never(roomName) == FALSE

RoomHasHost_AnyRoom(roomName) == DOMAIN hostID # {}

RoomHasHost(roomName) == Truthy(Get(hostID, roomName))

\* socket.on('roomJoin') of the connected socket sid.
RoomJoin(sid, roomName, hostOrClientHint) ==
    /\ ~crashed
    /\ sid \in connected
    /\ LET hostOrClient == setDefault(hostOrClientHint, "client")
           displayName == setDisplayName(sid, "prens")
           uName == Get(userName, sid)
           host == Get(hostID, roomName)
           grp == Put(joined, sid, joined[sid] \cup {roomName})
           joinedText == "You have joined room " \o roomName \o
                         " and your client name is " \o displayName \o "."
       IN  /\ last' = Event("roomJoin", sid, roomName, hostOrClientHint)
           /\ IF hostOrClient = "client" /\ RoomHasHost(roomName)
              THEN /\ joined' = grp
                   /\ room' = Put(room, sid, roomName)
                   /\ sent' = {Emission(sid, "room-joining-message",
                                        <<joinedText, uName>>,
                                        ioTo(sid, connected, grp)),
                               Emission(host, "new-game-client",
                                        <<uName, Get(nickName, sid),
                                          Get(teamName, sid)>>,
                                        ioTo(host, connected, grp)),
                               Emission(host, "chat message",
                                        <<displayName \o " is a new client in room "
                                            \o roomName \o ".">>,
                                        ioTo(host, connected, grp))}
                   /\ UNCHANGED <<hostID, hostAck>>
              ELSE IF hostOrClient = "client"
              THEN /\ sent' = {Emission(sid, "room-joining-message",
                                        <<"Sorry, there is no host yet for room "
                                            \o roomName \o ".", uName>>,
                                        ioTo(sid, connected, joined))}
                   /\ UNCHANGED <<joined, room, hostID, hostAck>>
              ELSE IF hostOrClient = "host" /\ RoomHasHost(roomName)
              THEN /\ sent' = {Emission(sid, "room-joining-message",
                                        <<"Sorry, there is already a host for room "
                                            \o roomName \o ".", uName>>,
                                        ioTo(sid, connected, joined))}
                   /\ UNCHANGED <<joined, room, hostID, hostAck>>
              ELSE IF hostOrClient = "host"
              THEN /\ joined' = grp
                   /\ room' = Put(room, sid, roomName)
                   /\ hostID' = Put(hostID, roomName, sid)
                   /\ hostAck' = Put(hostAck, sid, hostAck[sid] \cup {roomName})
                   /\ sent' = {Emission(sid, "room-joining-message",
                                        <<joinedText, uName, Get(nickName, sid)>>,
                                        ioTo(sid, connected, grp)),
                               Emission(sid, "room-joining-message",
                                        <<"You are the host of room "
                                            \o roomName \o ".", uName>>,
                                        ioTo(sid, connected, grp))}
              ELSE /\ sent' = {}
                   /\ UNCHANGED <<joined, room, hostID, hostAck>>
    /\ UNCHANGED <<connectionIndex, nameIndex, userName, nickName, teamName, id,
                   connected, timerVars, now, crashed>>

\* ------------------------------------------------------------- disconnect
\* The body of socket.on('disconnect'), run once the transport has dropped sid
\* (conn and grp are the transport's state after the drop).
\* if (cD.userName[socket.id]): the handler acts; a variant that always acts.
DisconnectRuns_Always(cd, sid) == TRUE

DisconnectRuns(cd, sid) == Truthy(Get(cd.userName, sid))

\* The 'disconnect' handler of sid on the maps cd: the maps it leaves and
\* what it emits. A variant removes the entries before it looks up the host.
DisconnectHandler_RemoveFirst(cd, sid, conn, grp) ==
    IF DisconnectRuns(cd, sid)
    THEN LET after == RemovedFrom(cd, sid)
             host == Get(after.hostID, Get(after.room, sid))
             message == DisplayNameIn(after, sid, "prens") \o " has disconnected."
         IN  [cd |-> after,
              sent |-> {Emission(host, "chat message", <<message \o ".">>,
                                 ioTo(host, conn, grp)),
                        Emission(host, "client-disconnected",
                                 <<Get(after.userName, sid)>>, ioTo(host, conn, grp))}]
    ELSE [cd |-> cd, sent |-> {}]

DisconnectHandler(cd, sid, conn, grp) ==
    IF DisconnectRuns(cd, sid)
    THEN LET host == Get(cd.hostID, Get(cd.room, sid))
             message == DisplayNameIn(cd, sid, "prens") \o " has disconnected."
         IN  [cd |-> RemovedFrom(cd, sid),
              sent |-> {Emission(host, "chat message", <<message \o ".">>,
                                 ioTo(host, conn, grp)),
                        Emission(host, "client-disconnected",
                                 <<Get(cd.userName, sid)>>, ioTo(host, conn, grp))}]
    ELSE [cd |-> cd, sent |-> {}]

OnDisconnect(sid, conn, grp) ==
    LET done == DisconnectHandler(cDNow, sid, conn, grp)
    IN  /\ sent' = done.sent
        /\ BecomeMaps(done.cd)

\* The client closes its socket (page reload, network loss, socket.disconnect
\* on the client side): the transport drops it and fires 'disconnect'.
Disconnect(sid) ==
    /\ ~crashed
    /\ sid \in connected
    /\ connected' = connected \ {sid}
    /\ joined' = Delete(joined, sid)
    /\ hostAck' = Delete(hostAck, sid)
    /\ last' = Event("disconnect", sid, "", "")
    /\ OnDisconnect(sid, connected \ {sid}, Delete(joined, sid))
    /\ UNCHANGED <<connectionIndex, nameIndex, timerVars, now, crashed>>

\* socket.on('okDisconnectMe') of the connected socket sid, naming clientName.
OkDisconnectMe(sid, clientName) ==
    /\ ~crashed
    /\ sid \in connected
    /\ LET clientID == Get(id, clientName)
           host == Get(hostID, Get(room, clientID))
           \* socket.disconnect(): the transport drops sid and 'disconnect'
           \* runs on the maps removeUserFromMaps has left
           done == DisconnectHandler(RemovedFrom(cDNow, sid), sid,
                                     connected \ {sid}, Delete(joined, sid))
       IN  /\ sent' = {Emission(host, "chat message",
                                <<clientName \o " has disconnected">>,
                                ioTo(host, connected, joined)),
                       Emission(host, "client-disconnected", <<clientName>>,
                                ioTo(host, connected, joined))}
                          \cup done.sent
           /\ BecomeMaps(done.cd)
    /\ connected' = connected \ {sid}
    /\ joined' = Delete(joined, sid)
    /\ hostAck' = Delete(hostAck, sid)
    /\ last' = Event("okDisconnectMe", sid, clientName, "")
    /\ UNCHANGED <<connectionIndex, nameIndex, timerVars, now, crashed>>

\* ----------------------------------------------------------- chat message
\* A variant of disconnectClientsInOneRoom that does not spare the host.
disconnectClientsInOneRoom_WithHost(roomName) ==
    {Emission(socket_id, "disconnectByServer",
              <<Get(userName, socket_id), "host">>,
              ioTo(socket_id, connected, joined)) :
         socket_id \in {s \in DOMAIN userName : Get(room, s) = roomName}}

disconnectClientsInOneRoom(roomName) ==
    {Emission(socket_id, "disconnectByServer",
              <<Get(userName, socket_id), "host">>,
              ioTo(socket_id, connected, joined)) :
         socket_id \in {s \in DOMAIN userName :
                            /\ Get(room, s) = roomName
                            /\ s # Get(hostID, roomName)}}

\* socket.on('chat message') of the connected socket sid. The text of the room
\* report is not modelled: its payload is the constant "roomReport()".
ChatMessage(sid, msg) ==
    /\ ~crashed
    /\ sid \in connected
    /\ setTimer(sid, "restart", DefaultIdle_m, idleTime_m)
    /\ sent' =
         IF msg = "dcir"
         THEN IF IsHost(sid)
              THEN disconnectClientsInOneRoom(Get(room, sid))
              ELSE {Emission(sid, "chat message",
                             <<"Requests to disconnect clients must come from the host.">>,
                             ioTo(sid, connected, joined))}
         ELSE IF msg = "dac"
         THEN {}
         ELSE IF msg = "rr"
         THEN IF IsHost(sid)
              THEN {Emission(Get(hostID, Get(room, sid)), "chat message",
                             <<"roomReport()">>,
                             ioTo(Get(hostID, Get(room, sid)), connected, joined))}
              ELSE {Emission(sid, "chat message",
                             <<"Requests for room reports must come from the host.">>,
                             ioTo(sid, connected, joined))}
         ELSE {Emission(Get(room, sid), "chat message",
                        <<msg \o " (" \o setDisplayName(sid, "comma") \o ")">>,
                        ioTo(Get(room, sid), connected, joined))}
    /\ last' = Event("chat message", sid, msg, "")
    /\ UNCHANGED <<connectionIndex, cDvars, connected, joined, now, crashed, hostAck>>

\* ------------------------------------------------------------------ relay
\* The position of a socket in the order the connections were accepted, which
\* is the order for (socket_id in cD.userName) visits them.
SocketNumber(sid) == CHOOSE n \in 1..connectionIndex : SocketId(n) = sid

\* What a client puts in an echo-from-Client-to-Server message.
EchoTexts == {"server", "host", "other"}

\* socket.on('echo-from-Client-to-Server') of the connected socket sid.
EchoFromClient(sid, msg) ==
    /\ ~crashed
    /\ sid \in connected
    /\ sent' = IF msg = "server"
               THEN {Emission(sid, "echo-from-Server-to-Client", <<"server">>,
                              ioTo(sid, connected, joined))}
               ELSE IF msg = "host"
               THEN {Emission(Get(hostID, Get(room, sid)), "echo-from-Server-to-Host",
                              <<sid>>,
                              ioTo(Get(hostID, Get(room, sid)), connected, joined))}
               ELSE {}
    /\ last' = Event("echo-from-Client-to-Server", sid, msg, "")
    /\ UNCHANGED <<connectionIndex, cDvars, connected, joined, timerVars, now,
                   crashed, hostAck>>

\* socket.on('echo-from-Host-to-Server') of the connected socket sid; msg is
\* the socket id the echo is to return to.
EchoFromHost(sid, msg) ==
    /\ ~crashed
    /\ sid \in connected
    /\ sent' = {Emission(msg, "echo-from-Server-to-Client", <<"host">>,
                         ioTo(msg, connected, joined))}
    /\ last' = Event("echo-from-Host-to-Server", sid, msg, "")
    /\ UNCHANGED <<connectionIndex, cDvars, connected, joined, timerVars, now,
                   crashed, hostAck>>

\* The sockets socket.to(target) leaves out: the sender, or (variant) nobody.
NoSenderExcluded_Nobody(sender) == {}

NoSenderExcluded(sender) == {sender}

\* The 'to' field of a control message: the three keywords, a user name and a
\* nick name.
ControlTargets == {"host", "room", "roomNoSender", "u1", "Al"}

\* msg.data of a control message: absent, without displayThis, or with a text.
ControlData == {"absent", UNDEF, "hey"}

\* socket.on('control message') of the connected socket sid, for a message
\* {to, data: {displayThis}}. The relayed payload is <<to, displayThis>>.
ControlMessage(sid, to, data) ==
    /\ ~crashed
    /\ sid \in connected
    /\ last' = Event("control message", sid, to, data)
    /\ IF data = "absent"
       THEN \* msg.data.displayThis of undefined: uncaught TypeError
            /\ crashed' = TRUE
            /\ sent' = {}
       ELSE LET displayThis == IF Truthy(data)
                               THEN data \o " (" \o setDisplayName(sid, "comma") \o ")"
                               ELSE data
                matches == {s \in DOMAIN userName :
                               Truthy(Get(nickName, s)) /\ Get(nickName, s) = to}
                nickName_id == IF matches = {} THEN NULL
                               ELSE CHOOSE s \in matches :
                                       \A t \in matches : SocketNumber(t) <= SocketNumber(s)
                target == IF to = "host" THEN Get(hostID, Get(room, sid))
                          ELSE IF to \in {"room", "roomNoSender"} THEN Get(room, sid)
                          ELSE IF Truthy(nickName_id) THEN nickName_id
                          ELSE Get(id, to)
            IN  /\ crashed' = crashed
                /\ sent' = IF to = "roomNoSender"
                           THEN {Emission(target, "control message", <<to, displayThis>>,
                                          ioTo(target, connected, joined)
                                              \ NoSenderExcluded(sid))}
                           ELSE {Emission(target, "control message", <<to, displayThis>>,
                                          ioTo(target, connected, joined))}
    /\ UNCHANGED <<connectionIndex, cDvars, connected, joined, timerVars, now, hostAck>>

\* A variant of 'chat message but not me' that restarts the sender's timers
\* as 'chat message' does.
ChatMessageButNotMe_Restarts(sid, msg) ==
    /\ ~crashed
    /\ sid \in connected
    /\ setTimer(sid, "restart", DefaultIdle_m, idleTime_m)
    /\ sent' = {Emission(Get(room, sid), "chat message",
                         <<msg \o " (" \o setDisplayName(sid, "comma") \o ")">>,
                         socketTo(sid, Get(room, sid), connected, joined))}
    /\ last' = Event("chat message but not me", sid, msg, "")
    /\ UNCHANGED <<connectionIndex, cDvars, connected, joined, now, crashed, hostAck>>

\* socket.on('chat message but not me') of the connected socket sid.
ChatMessageButNotMe(sid, msg) ==
    /\ ~crashed
    /\ sid \in connected
    /\ sent' = {Emission(Get(room, sid), "chat message",
                         <<msg \o " (" \o setDisplayName(sid, "comma") \o ")">>,
                         socketTo(sid, Get(room, sid), connected, joined))}
    /\ last' = Event("chat message but not me", sid, msg, "")
    /\ UNCHANGED <<connectionIndex, cDvars, connected, joined, timerVars, now,
                   crashed, hostAck>>

\* socket.on('signaling message') of the connected socket sid, for a message
\* whose 'to' field is to.
SignalingMessage(sid, to) ==
    /\ ~crashed
    /\ sid \in connected
    /\ LET target == IF to = "host" THEN Get(hostID, Get(room, sid)) ELSE Get(id, to)
       IN  sent' = {Emission(target, "signaling message", <<to>>,
                             ioTo(target, connected, joined))}
    /\ last' = Event("signaling message", sid, to, "")
    /\ UNCHANGED <<connectionIndex, cDvars, connected, joined, timerVars, now,
                   crashed, hostAck>>

\* socket.on('client-mK-event') of the connected socket sid.
ClientMKEvent(sid) ==
    /\ ~crashed
    /\ sid \in connected
    /\ sent' = {Emission(Get(hostID, Get(room, sid)), "client-mK-StH-event", <<"mK">>,
                         ioTo(Get(hostID, Get(room, sid)), connected, joined))}
    /\ last' = Event("client-mK-event", sid, "", "")
    /\ UNCHANGED <<connectionIndex, cDvars, connected, joined, timerVars, now,
                   crashed, hostAck>>

\* A variant of 'clientDisconnectByHost' that also removes the named client
\* from the maps.
ClientDisconnectByHost_Removes(sid, clientName) ==
    /\ ~crashed
    /\ sid \in connected
    /\ sent' = {Emission(Get(id, clientName), "disconnectByServer",
                         <<clientName, "host">>,
                         ioTo(Get(id, clientName), connected, joined))}
    /\ last' = Event("clientDisconnectByHost", sid, clientName, "")
    /\ removeUserFromMaps(Get(id, clientName))
    /\ UNCHANGED <<connectionIndex, nameIndex, connected, joined, timerVars, now,
                   crashed, hostAck>>

\* socket.on('clientDisconnectByHost') of the connected socket sid, naming
\* clientName.
ClientDisconnectByHost(sid, clientName) ==
    /\ ~crashed
    /\ sid \in connected
    /\ sent' = {Emission(Get(id, clientName), "disconnectByServer",
                         <<clientName, "host">>,
                         ioTo(Get(id, clientName), connected, joined))}
    /\ last' = Event("clientDisconnectByHost", sid, clientName, "")
    /\ UNCHANGED <<connectionIndex, cDvars, connected, joined, timerVars, now,
                   crashed, hostAck>>

\* socket.on('shutDown-p2p-deleteClient') of the connected socket sid, naming
\* clientName.
ShutDownP2PDeleteClient(sid, clientName) ==
    /\ ~crashed
    /\ sid \in connected
    /\ LET host == Get(hostID, Get(room, Get(id, clientName)))
       IN  sent' = {Emission(host, "shutDown-p2p-deleteClient", <<clientName>>,
                             ioTo(host, connected, joined))}
    /\ last' = Event("shutDown-p2p-deleteClient", sid, clientName, "")
    /\ UNCHANGED <<connectionIndex, cDvars, connected, joined, timerVars, now,
                   crashed, hostAck>>

\* socket.on('command-from-host-to-all-clients') of the connected socket sid.
CommandFromHostToAllClients(sid) ==
    /\ ~crashed
    /\ sid \in connected
    /\ sent' = {Emission(Get(room, sid), "command-from-host-to-all-clients", <<"cmd">>,
                         ioTo(Get(room, sid), connected, joined))}
    /\ last' = Event("command-from-host-to-all-clients", sid, "", "")
    /\ UNCHANGED <<connectionIndex, cDvars, connected, joined, timerVars, now,
                   crashed, hostAck>>

\* ------------------------------------------------------------ alarm steps
Due(timer, sid) ==
    /\ sid \in DOMAIN timer
    /\ timer[sid].pending
    /\ timer[sid].at <= now

\* The warningTimer callback of the connection sid runs.
WarningTimerFires(sid) ==
    /\ ~crashed
    /\ Due(warningTimer, sid)
    /\ warningTimer' = Put(warningTimer, sid, Cleared)
    /\ sent' = {Emission(sid, "chat message",
                         <<"Idle socket will disconnect in "
                             \o ToString(WarningDelay(DefaultIdle_m)) \o ".0 minutes.">>,
                         {sid} \cap connected)}
    /\ last' = Event("warningTimer", sid, "", "")
    /\ UNCHANGED <<connectionIndex, cDvars, connected, joined, logoffTimer,
                   idleTime_m, orphans, now, crashed, hostAck>>

\* The logoffTimer callback of the connection sid runs.
LogoffTimerFires(sid) ==
    /\ ~crashed
    /\ Due(logoffTimer, sid)
    /\ last' = Event("logoffTimer", sid, "", "")
    /\ LET disconnectNotice == "Idle for " \o ToString(idleTime_m[sid]) \o
                               ".0 minutes. Network socket disconnected."
           n_users == Cardinality(DOMAIN userName)
       IN  IF IsHost(sid)
           THEN IF HostEvicted(n_users, idleTime_m[sid])
                THEN \* socket.disconnect(): the transport drops sid and
                     \* 'disconnect' runs on the maps removeUserFromMaps left
                     LET done == DisconnectHandler(RemovedFrom(cDNow, sid), sid,
                                                   connected \ {sid},
                                                   Delete(joined, sid))
                     IN
                     /\ sent' = {Emission(sid, "chat message",
                                          <<disconnectNotice \o " advice">>,
                                          {sid} \cap connected)}
                                    \cup done.sent
                     /\ BecomeMaps(done.cd)
                     /\ connected' = connected \ {sid}
                     /\ joined' = Delete(joined, sid)
                     /\ hostAck' = Delete(hostAck, sid)
                     /\ logoffTimer' = Put(logoffTimer, sid, Cleared)
                     /\ UNCHANGED <<nameIndex, warningTimer, idleTime_m, orphans>>
                ELSE /\ setTimer(sid, "extend", ExtraTime_m,
                                 Put(idleTime_m, sid, idleTime_m[sid] + ExtraTime_m))
                     /\ sent' = {}
                     /\ UNCHANGED <<cDvars, connected, joined, hostAck>>
           ELSE /\ sent' = {Emission(sid, "chat message", <<disconnectNotice>>,
                                     {sid} \cap connected),
                            Emission(sid, "disconnectByServer",
                                     <<Get(userName, sid), "server">>,
                                     ioTo(sid, connected, joined))}
                /\ logoffTimer' = Put(logoffTimer, sid, Cleared)
                /\ UNCHANGED <<cDvars, connected, joined, warningTimer,
                               idleTime_m, orphans, hostAck>>
    /\ UNCHANGED <<connectionIndex, now, crashed>>

\* The minutes at which a pending timeout is due.
PendingAlarms ==
    {warningTimer[s].at : s \in {x \in DOMAIN warningTimer : warningTimer[x].pending}}
        \cup
    {logoffTimer[s].at : s \in {x \in DOMAIN logoffTimer : logoffTimer[x].pending}}

\* The horizon: time is observed up to this minute.
MaxMinutes == 45

\* Time passes until the next pending timeout is due, up to the horizon.
\* Client events happen at these instants.
TickUpTo(horizon) ==
    /\ ~crashed
    /\ PendingAlarms # {}
    /\ \A t \in PendingAlarms : t > now
    /\ now' = CHOOSE t \in PendingAlarms : \A u \in PendingAlarms : t <= u
    /\ now' <= horizon
    /\ last' = Event("tick", "", "", "")
    /\ sent' = {}
    /\ UNCHANGED <<connectionIndex, cDvars, connected, joined, timerVars,
                   crashed, hostAck>>

Tick == TickUpTo(MaxMinutes)

\* ------------------------------------------------------------------- next
\* The handshakes a client may send: currentName is read in 're-connect' only.
Handshakes ==
    {h \in [mode : Modes, currentName : CurrentNames, nickName : NickHints,
            teamName : TeamHints] :
        /\ h.mode # "re-connect" => h.currentName = UNDEF
        /\ h.mode = "re-connect" => h.currentName # UNDEF}

\* A first connection that gives no nick name and no team name.
PlainHandshakes ==
    {h \in Handshakes : h.mode = "normal" /\ h.nickName = UNDEF /\ h.teamName = UNDEF}

\* Handshakes of every mode, re-connecting as u1; a first or a re-connecting
\* client may give a nick name, one with an unrecognised mode gives one.
NameHandshakes ==
    {h \in Handshakes : /\ h.teamName = UNDEF
                        /\ h.currentName \in {UNDEF, "u1"}
                        /\ h.mode = "other" => h.nickName # UNDEF}

\* The names a client may put in an okDisconnectMe payload.
NamePayloads == {"u1", "u2"}

ConnectPlain ==
    \E h \in PlainHandshakes : Connect(h.mode, h.currentName, h.nickName, h.teamName)
ConnectNamed ==
    \E h \in NameHandshakes : Connect(h.mode, h.currentName, h.nickName, h.teamName)
RoomJoinAny ==
    \E sid \in connected, r \in RoomNames, h \in HostOrClientHints : RoomJoin(sid, r, h)
RoomJoinOneRoom ==
    \E sid \in connected, h \in {"host", "client"} : RoomJoin(sid, "A", h)
DisconnectAny == \E sid \in connected : Disconnect(sid)
OkDisconnectMeAny ==
    \E sid \in connected, name \in NamePayloads : OkDisconnectMe(sid, name)
ChatMessageAny == \E sid \in connected, msg \in ChatTexts : ChatMessage(sid, msg)

\* Rooms: plain connections that join, host, chat in and leave two rooms.
Next ==
    \/ ConnectPlain
    \/ RoomJoinAny
    \/ DisconnectAny
    \/ OkDisconnectMeAny
    \/ \E sid \in connected : ChatMessage(sid, "hi")

Spec == Init /\ [][Next]_vars

\* Names: connections of every mode and nick name, and one room.
NextNames ==
    \/ ConnectNamed
    \/ RoomJoinOneRoom
    \/ DisconnectAny
    \/ \E sid \in connected : OkDisconnectMe(sid, "u1")

SpecNames == Init /\ [][NextNames]_vars

\* Every handler and alarm, for connections that give no nick name.
MaxConnAll == 2

TwoPlainHandshakes ==
    {h \in Handshakes : /\ h.mode \in {"normal", "re-connect"}
                        /\ h.nickName = UNDEF /\ h.teamName = UNDEF
                        /\ h.currentName \in {UNDEF, "u1"}}

NextAll ==
    \/ /\ connectionIndex < MaxConnAll
       /\ \E h \in TwoPlainHandshakes :
             Connect(h.mode, h.currentName, h.nickName, h.teamName)
    \/ RoomJoinOneRoom
    \/ DisconnectAny
    \/ \E sid \in connected : OkDisconnectMe(sid, "u1")
    \/ ChatMessageAny
    \/ \E sid \in AllSockets : WarningTimerFires(sid)
    \/ \E sid \in AllSockets : LogoffTimerFires(sid)
    \/ Tick

SpecAll == Init /\ [][NextAll]_vars

\* Relay: connections with or without a nick name, two rooms, the echo and
\* control-message handlers.
MaxConnRelay == 2

NickHandshakes ==
    {h \in Handshakes : h.mode = "normal" /\ h.teamName = UNDEF}

\* The control messages sent: every target with a text, and a broadcast with
\* no text or no data.
ControlMessages ==
    {m \in [to : ControlTargets, data : ControlData] :
        m.data # "hey" => m.to = "room"}

NextRelay ==
    \/ /\ connectionIndex < MaxConnRelay
       /\ \E h \in NickHandshakes :
             Connect(h.mode, h.currentName, h.nickName, h.teamName)
    \/ \E sid \in connected, r \in RoomNames, h \in {"host", "client"} :
          RoomJoin(sid, r, h)
    \/ DisconnectAny
    \/ \E sid \in connected, msg \in EchoTexts : EchoFromClient(sid, msg)
    \/ \E sid \in connected, msg \in AllSockets : EchoFromHost(sid, msg)
    \/ \E sid \in connected, m \in ControlMessages : ControlMessage(sid, m.to, m.data)
    \/ \E sid \in connected, to \in {"host", "u1"} : SignalingMessage(sid, to)
    \/ \E sid \in connected : ClientMKEvent(sid)

SpecRelay == Init /\ [][NextRelay]_vars

\* Idling: connections that stay silent while the alarms run, up to the cap
\* of the host's extensions.
MaxConnIdle == 2

LongMinutes == 180

SilentHandshakes ==
    {h \in Handshakes : /\ h.mode = "normal"
                        /\ h.nickName = UNDEF /\ h.teamName = UNDEF}

NextIdle ==
    \/ /\ connectionIndex < MaxConnIdle
       /\ \E h \in SilentHandshakes :
             Connect(h.mode, h.currentName, h.nickName, h.teamName)
    \/ RoomJoinOneRoom
    \/ DisconnectAny
    \/ \E sid \in AllSockets : WarningTimerFires(sid)
    \/ \E sid \in AllSockets : LogoffTimerFires(sid)
    \/ TickUpTo(LongMinutes)

SpecIdle == Init /\ [][NextIdle]_vars

\* Leaving: connections in mode 'normal' or with no recognised mode, which
\* leave by any route while the alarms run.
ModeHandshakes ==
    {h \in Handshakes : /\ h.mode \in {"normal", "other"}
                        /\ h.nickName = UNDEF /\ h.teamName = UNDEF}

NextLeave ==
    \/ /\ connectionIndex < MaxConnAll
       /\ \E h \in ModeHandshakes :
             Connect(h.mode, h.currentName, h.nickName, h.teamName)
    \/ RoomJoinOneRoom
    \/ DisconnectAny
    \/ \E sid \in connected : OkDisconnectMe(sid, "u1")
    \/ \E sid \in AllSockets : WarningTimerFires(sid)
    \/ \E sid \in AllSockets : LogoffTimerFires(sid)
    \/ Tick

SpecLeave == Init /\ [][NextLeave]_vars

\* Chat: plain connections in two rooms that chat, send the host's commands
\* and ask for evictions.
MaxConnChat == 3

NextChat ==
    \/ /\ connectionIndex < MaxConnChat
       /\ ConnectPlain
    \/ \E sid \in connected, r \in RoomNames, h \in {"host", "client"} :
          RoomJoin(sid, r, h)
    \/ DisconnectAny
    \/ \E sid \in connected, msg \in {"hi", "dcir"} : ChatMessage(sid, msg)
    \/ \E sid \in connected : ChatMessageButNotMe(sid, "hi")
    \/ \E sid \in connected : ClientDisconnectByHost(sid, "u1")
    \/ \E sid \in connected : CommandFromHostToAllClients(sid)

SpecChat == Init /\ [][NextChat]_vars

\* Nick names: first connections that ask for the nick name "Al" or "Al3",
\* and control messages addressed by nick name or by user name.
DupNickHandshakes ==
    {[mode |-> "normal", currentName |-> UNDEF, nickName |-> n, teamName |-> UNDEF] :
        n \in {"Al", "Al3"}}

NextNick ==
    \/ \E h \in DupNickHandshakes :
          Connect(h.mode, h.currentName, h.nickName, h.teamName)
    \/ DisconnectAny
    \/ \E sid \in connected, to \in {"Al3", "u1"} : ControlMessage(sid, to, "hey")

SpecNick == Init /\ [][NextNick]_vars

\* Routing: plain connections in one room, every routed event, every exit
\* route and the alarms.
MaxConnRoute == 2

\* Time is observed for one full idle budget.
RouteMinutes == 40

RoutedEvent(sid) ==
    \/ \E msg \in {"server", "host"} : EchoFromClient(sid, msg)
    \/ EchoFromHost(sid, "s1")
    \/ \E msg \in {"hi", "dcir"} : ChatMessage(sid, msg)
    \/ ChatMessageButNotMe(sid, "hi")
    \/ SignalingMessage(sid, "host")
    \/ \E to \in {"host", "room"} : ControlMessage(sid, to, "hey")
    \/ ClientMKEvent(sid)
    \/ ClientDisconnectByHost(sid, "u2")
    \/ ShutDownP2PDeleteClient(sid, "u2")
    \/ CommandFromHostToAllClients(sid)

NextRoute ==
    \/ /\ connectionIndex < MaxConnRoute
       /\ \E h \in SilentHandshakes :
             Connect(h.mode, h.currentName, h.nickName, h.teamName)
    \/ RoomJoinOneRoom
    \/ DisconnectAny
    \/ \E sid \in connected : OkDisconnectMe(sid, "u2")
    \/ \E sid \in connected : RoutedEvent(sid)
    \/ \E sid \in AllSockets : WarningTimerFires(sid)
    \/ \E sid \in AllSockets : LogoffTimerFires(sid)
    \/ TickUpTo(RouteMinutes)

SpecRoute == Init /\ [][NextRoute]_vars

\* Grace: connections that never chat, accepted early enough for a full
\* series of extensions to end before the horizon; every due alarm callback
\* eventually runs and time eventually passes.
MaxConnLive == 2

LiveMinutes == 200

AlarmFires ==
    \E sid \in AllSockets : WarningTimerFires(sid) \/ LogoffTimerFires(sid)

NextLive ==
    \/ /\ connectionIndex < MaxConnLive
       /\ now + IdleCap_m <= LiveMinutes
       /\ \E h \in ModeHandshakes :
             Connect(h.mode, h.currentName, h.nickName, h.teamName)
    \/ RoomJoinOneRoom
    \/ DisconnectAny
    \/ AlarmFires
    \/ TickUpTo(LiveMinutes)

SpecLive ==
    /\ Init
    /\ [][NextLive]_vars
    /\ WF_vars(AlarmFires)
    /\ WF_vars(TickUpTo(LiveMinutes))

\* ------------------------------------------------------------- properties
Range(m) == {m[k] : k \in DOMAIN m}

\* The last step was the connection handler for a handshake of this mode.
ConnectedAs(ev, mode) == ev.ev = "connection" /\ ev.a = mode

\* C1: no two live connections hold the same display name (userName).
\* Stated for names that are strings a client can be addressed by.
C1_DisplayNamesUnique ==
    \A a, b \in connected :
        (a # b /\ Truthy(Get(userName, a))) => Get(userName, a) # Get(userName, b)

\* C2: each room name has at most one host among the live connections: at
\* most one connected socket has been told it hosts the room or passes the
\* host test for it.
HostsOf(r) ==
    {s \in connected : r \in hostAck[s] \/ (IsHost(s) /\ Get(room, s) = r)}

C2_AtMostOneHostPerRoom == \A r \in RoomNames : Cardinality(HostsOf(r)) <= 1

\* A room has a live host and another live connection has just asked to host it.
C2_Witness ==
    /\ last.ev = "roomJoin"
    /\ last.b = "host"
    /\ last.id \in connected
    /\ \E s \in connected : s # last.id /\ HostsOf(last.a) = {s}

AlreadyHostedAdvisory(sid, roomName, uName) ==
    Emission(sid, "room-joining-message",
             <<"Sorry, there is already a host for room " \o roomName \o ".", uName>>,
             {sid})

\* C3: a roomJoin as host for a room that has a recorded host fails: the only
\* emission is the 'already a host' advisory to the joiner, and the recorded
\* hosts, every room membership, the transport groups and the identity maps
\* are unchanged.
C3_SecondHostJoinFails ==
    [][(last'.ev = "roomJoin" /\ last'.b = "host" /\ Truthy(Get(hostID, last'.a)))
          => /\ sent' = {AlreadyHostedAdvisory(last'.id, last'.a,
                                               Get(userName, last'.id))}
             /\ UNCHANGED <<hostID, room, joined, connected, userName, nickName,
                            teamName, id, nameIndex>>]_vars

\* A member of one room was refused as host of the other, hosted room.
C3_Witness ==
    /\ last.ev = "roomJoin"
    /\ last.b = "host"
    /\ sent = {AlreadyHostedAdvisory(last.id, last.a, Get(userName, last.id))}
    /\ Truthy(Get(room, last.id))
    /\ Get(room, last.id) # last.a
    /\ Get(hostID, last.a) # last.id

NoHostAdvisory(sid, roomName, uName) ==
    Emission(sid, "room-joining-message",
             <<"Sorry, there is no host yet for room " \o roomName \o ".", uName>>,
             {sid})

\* C4: a roomJoin as client (hostOrClient 'client' or omitted) for a room with
\* no recorded host fails: the only emission is the 'no host yet' advisory to
\* the joiner, and room memberships and transport groups are unchanged. With
\* a recorded host the join succeeds: the joiner's room becomes that room, it
\* enters the room's transport group, and new-game-client carrying the
\* joiner's name is emitted to the recorded host.
C4_ClientJoinNeedsHost ==
    [][(last'.ev = "roomJoin" /\ last'.b \in {"client", UNDEF})
          => IF Truthy(Get(hostID, last'.a))
             THEN /\ Get(room', last'.id) = last'.a
                  /\ last'.a \in joined'[last'.id]
                  /\ \E e \in sent' :
                        /\ e.ev = "new-game-client"
                        /\ e.to = Get(hostID, last'.a)
                        /\ e.arg[1] = Get(userName, last'.id)
                        /\ e.rcv = {Get(hostID, last'.a)} \cap connected
             ELSE /\ sent' = {NoHostAdvisory(last'.id, last'.a,
                                             Get(userName, last'.id))}
                  /\ UNCHANGED <<room, joined, hostID>>]_vars

\* A member of a hosted room asked, with hostOrClient omitted, to join the
\* other room, which has no host, and was refused.
C4_Witness ==
    /\ last.ev = "roomJoin"
    /\ last.b = UNDEF
    /\ sent = {NoHostAdvisory(last.id, last.a, Get(userName, last.id))}
    /\ Truthy(Get(room, last.id))
    /\ Get(room, last.id) # last.a
    /\ \E s \in connected : s # last.id /\ IsHost(s)

\* C5: when the recorded host of a room disconnects (transport disconnect or
\* okDisconnectMe), the host slot of that room is cleared and every other
\* connection's room membership is what it was.
C5_HostLeavesSlotCleared ==
    [][(last'.ev \in {"disconnect", "okDisconnectMe"})
          => /\ \A r \in DOMAIN hostID : hostID[r] = last'.id => r \notin DOMAIN hostID'
             /\ \A c \in AllSockets \ {last'.id} : Get(room', c) = Get(room, c)]_vars

\* C6: once a connection is gone, no map refers to it.
C6_NoEntryOfGoneSocket ==
    \A c \in AllSockets \ connected :
        /\ c \notin DOMAIN userName
        /\ c \notin DOMAIN nickName
        /\ c \notin DOMAIN teamName
        /\ c \notin DOMAIN room
        /\ c \notin Range(id)
        /\ c \notin Range(hostID)

\* C7: a room broadcast is delivered only to connections whose current room
\* is the sender's room: a connection that moved from room A to room B no
\* longer receives what the members of A send to their room.
C7_BroadcastOnlyToCurrentMembers ==
    [][(last'.ev = "chat message" /\ last'.a = "hi")
          => \A e \in sent' :
                \A c \in e.rcv : Get(room, c) = Get(room, last'.id)]_vars

\* C8: a 're-connect' connect whose currentName is registered to a different
\* live connection is rejected: the new socket is not bound to that name and
\* the holder's name-to-id and id-to-name entries are unchanged.
C8_ReconnectConflictRejected ==
    [][(ConnectedAs(last', "re-connect")
          /\ \E h \in connected : Get(userName, h) = last'.b)
          => /\ Get(userName', last'.id) # last'.b
             /\ Get(id', last'.b) = Get(id, last'.b)
             /\ \A h \in connected : Get(userName', h) = Get(userName, h)]_vars

\* C9: nameIndex never decreases; it changes only in a 'normal' connect,
\* which increases it; no other event changes it.
C9_NameIndexMonotone ==
    [][/\ nameIndex' >= nameIndex
       /\ nameIndex' # nameIndex => ConnectedAs(last', "normal")
       /\ ConnectedAs(last', "normal") => nameIndex' > nameIndex]_vars

\* A 're-connect' connect after one name was minted: the counter is still 1.
C9_Witness ==
    /\ ConnectedAs(last, "re-connect")
    /\ connectionIndex = 2
    /\ nameIndex = 1

\* C10: a 'normal' connect mints u<N> with N the first counter value above
\* the old counter whose name no live connection holds: every value skipped
\* is held by a live connection, the minted name is held by no other live
\* connection, it is registered to the new socket, and the counter becomes N.
UName(n) == "u" \o ToString(n)

HeldByLive(name, conn, names) == \E c \in conn : Get(names, c) = name

C10_MintsNextUnusedName ==
    [][ConnectedAs(last', "normal")
          => /\ nameIndex' > nameIndex
             /\ Get(userName', last'.id) = UName(nameIndex')
             /\ Get(id', UName(nameIndex')) = last'.id
             /\ \A k \in (nameIndex + 1)..(nameIndex' - 1) :
                   HeldByLive(UName(k), connected, userName)
             /\ ~HeldByLive(UName(nameIndex'), connected, userName)
             /\ ~HeldByLive(UName(nameIndex'), connected' \ {last'.id}, userName')]_vars

\* The counter skipped u1, which a live connection claimed by re-connect.
C10_Witness ==
    /\ ConnectedAs(last, "normal")
    /\ connectionIndex = 2
    /\ nameIndex = 2
    /\ Get(userName, last.id) = "u2"
    /\ \E c \in connected : c # last.id /\ Get(userName, c) = "u1"

\* C11: when a connection registers with a nick name that a live connection
\* currently holds, the nick name stored for it is the requested one followed
\* by the number of its user name (u<N> gives N), it differs from the
\* holder's, and no live connection's stored nick name changes.
NumberOf(name) == CHOOSE n \in 1..(MaxConn + 1) : UName(n) = name

C12_RoomNoSenderSkipsSender ==
    [][(last'.ev = "control message" /\ last'.a = "roomNoSender")
          => /\ \A e \in sent' : last'.id \notin e.rcv
             /\ \A c \in connected \ {last'.id} :
                    (Truthy(Get(room, last'.id)) /\ Get(room, c) = Get(room, last'.id))
                       => \E e \in sent' :
                             /\ e.ev = "control message"
                             /\ e.arg[1] = "roomNoSender"
                             /\ c \in e.rcv]_vars

\* The host of a room sent one; the other member of the room received it.
C12_Witness ==
    /\ last.ev = "control message"
    /\ last.a = "roomNoSender"
    /\ IsHost(last.id)
    /\ \E e \in sent :
          \E c \in e.rcv : c # last.id /\ Get(room, c) = Get(room, last.id)

\* C13: when a connection that is not the host, in a room with a recorded
\* host, sends echo-from-Client-to-Server 'host', the room's host and only
\* the host receives echo-from-Server-to-Host carrying the sender's id; when
\* a host sends echo-from-Host-to-Server with the id of a live connection,
\* that connection and only it receives echo-from-Server-to-Client.
C13_EchoRoundTripViaHost ==
    [][/\ (/\ last'.ev = "echo-from-Client-to-Server"
           /\ last'.a = "host"
           /\ ~IsHost(last'.id)
           /\ RoomHasHost(Get(room, last'.id)))
          => sent' = {Emission(Get(hostID, Get(room, last'.id)),
                               "echo-from-Server-to-Host", <<last'.id>>,
                               {Get(hostID, Get(room, last'.id))})}
       /\ (/\ last'.ev = "echo-from-Host-to-Server"
           /\ IsHost(last'.id)
           /\ last'.a \in connected)
          => sent' = {Emission(last'.a, "echo-from-Server-to-Client", <<"host">>,
                               {last'.a})}]_vars

\* The warning a connection is sent when its warning alarm fires.
IdleWarning(sid) ==
    Emission(sid, "chat message",
             <<"Idle socket will disconnect in 20.0 minutes.">>, {sid} \cap connected)

\* C14: in every idle period (since the connect or the last chat message)
\* the warning alarm fires at half the budget, 20 minutes before the pending
\* disconnect alarm of the 40-minute budget; the step emits exactly one
\* warning to the connection, disconnects nobody and changes no entry; and
\* whenever the disconnect alarm fires, the warning of that period has fired.
C14_WarningBeforeDisconnect ==
    [][/\ last'.ev = "warningTimer"
          => /\ idleTime_m[last'.id] = DefaultIdle_m
             /\ logoffTimer[last'.id].pending
             /\ 2 * (logoffTimer[last'.id].at - now) = DefaultIdle_m
             /\ sent' = {IdleWarning(last'.id)}
             /\ UNCHANGED <<cDvars, connected, joined, logoffTimer, idleTime_m>>
       /\ last'.ev = "logoffTimer"
          => ~warningTimer[last'.id].pending]_vars

\* A live connection chatted at minute 20 and was warned at minute 40.
C14_Witness ==
    /\ last.ev = "warningTimer"
    /\ last.id \in connected
    /\ now = 40
    /\ sent = {IdleWarning(last.id)}
    /\ logoffTimer[last.id] = Scheduled(60)

\* C15: when the disconnect alarm of a live connection that is not a host
\* fires, the connection is evicted in that step: it is sent the disconnect
\* notice, its user-name, name-to-id and room entries are erased and its
\* transport connection is dropped.
C15_NonHostEvictedByAlarm ==
    [][(last'.ev = "logoffTimer" /\ last'.id \in connected /\ ~IsHost(last'.id))
          => /\ \E e \in sent' : e.ev = "disconnectByServer" /\ last'.id \in e.rcv
             /\ last'.id \notin DOMAIN userName'
             /\ last'.id \notin DOMAIN room'
             /\ last'.id \notin Range(id')
             /\ last'.id \notin connected']_vars

\* C16: when the disconnect alarm of a live host fires while another live
\* connection exists and the host's budget is below 180 minutes, the host is
\* not evicted and no entry changes; its budget grows by exactly 5 minutes,
\* its disconnect alarm is rescheduled 5 minutes later, no warning alarm is
\* pending for it and nothing is emitted; other connections' alarms are
\* untouched.
C16_HostExtendedWhileOthersLive ==
    [][(/\ last'.ev = "logoffTimer"
        /\ last'.id \in connected
        /\ IsHost(last'.id)
        /\ connected \ {last'.id} # {}
        /\ idleTime_m[last'.id] < 180)
          => /\ UNCHANGED <<cDvars, connected, joined>>
             /\ idleTime_m'[last'.id] = idleTime_m[last'.id] + 5
             /\ logoffTimer'[last'.id] = Scheduled(now + 5)
             /\ ~warningTimer'[last'.id].pending
             /\ sent' = {}
             /\ \A c \in AllSockets \ {last'.id} :
                    /\ warningTimer'[c] = warningTimer[c]
                    /\ logoffTimer'[c] = logoffTimer[c]
                    /\ idleTime_m'[c] = idleTime_m[c]]_vars

\* A host was extended a second time (budget 50) while a client of its room
\* stayed connected.
C16_Witness ==
    /\ last.ev = "logoffTimer"
    /\ last.id \in connected
    /\ IsHost(last.id)
    /\ idleTime_m[last.id] = 50
    /\ logoffTimer[last.id] = Scheduled(now + 5)
    /\ \E c \in connected : c # last.id /\ Get(room, c) = Get(room, last.id)

C18_LoneHostEvicted ==
    [][(/\ last'.ev = "logoffTimer"
        /\ last'.id \in connected
        /\ IsHost(last'.id)
        /\ connected = {last'.id})
          => /\ \E e \in sent' : e.ev = "chat message" /\ e.rcv = {last'.id}
             /\ last'.id \notin DOMAIN userName'
             /\ last'.id \notin Range(id')
             /\ last'.id \notin DOMAIN room'
             /\ Get(room, last'.id) \notin DOMAIN hostID'
             /\ last'.id \notin connected']_vars

\* C19: every chat message of a connection, whatever its text, replaces both
\* of its alarms by alarms for the full budget (warning 20 minutes and
\* disconnect 40 minutes after the message) and puts its budget back at 40;
\* an alarm callback runs only when its alarm is pending and due, and no step
\* moves a pending alarm to an earlier minute. So after a chat message at
\* minute t no warning fires before t + 20 and no disconnect alarm before
\* t + 40.
C19_ChatRestartsBothAlarms ==
    [][/\ last'.ev = "chat message"
          => /\ warningTimer'[last'.id] = Scheduled(now + 20)
             /\ logoffTimer'[last'.id] = Scheduled(now + 40)
             /\ idleTime_m'[last'.id] = 40
       /\ last'.ev = "warningTimer"
          => warningTimer[last'.id].pending /\ warningTimer[last'.id].at <= now
       /\ last'.ev = "logoffTimer"
          => logoffTimer[last'.id].pending /\ logoffTimer[last'.id].at <= now
       /\ \A c \in AllSockets :
             /\ (warningTimer[c].pending /\ warningTimer'[c].pending)
                   => warningTimer'[c].at >= warningTimer[c].at
             /\ (logoffTimer[c].pending /\ logoffTimer'[c].pending)
                   => logoffTimer'[c].at >= logoffTimer[c].at]_vars

\* A host whose alarm had been extended to minute 45 sent a host-only
\* command at minute 45: its alarms are due at 65 and 85, its budget is 40.
C19_Witness ==
    /\ last.ev = "chat message"
    /\ last.a = "rr"
    /\ IsHost(last.id)
    /\ now = 45
    /\ idleTime_m[last.id] = 40
    /\ warningTimer[last.id] = Scheduled(65)
    /\ logoffTimer[last.id] = Scheduled(85)
    /\ connected \ {last.id} # {}

\* C20: a connection that has been removed has no pending warning alarm and
\* no pending disconnect alarm, so no alarm callback runs for it.
C20_NoAlarmOfGoneConnection ==
    \A c \in AllSockets \ connected :
        ~warningTimer[c].pending /\ ~logoffTimer[c].pending

\* C21: the 'disconnect' event of a connection whose entries were already
\* removed is a no-op. In a step in which okDisconnectMe or the idle eviction
\* of a host has removed the entries and dropped the connection, the maps are
\* exactly what that removal left, the only emissions are the handler's own
\* (the two reports of okDisconnectMe, the notice of the eviction), and the
\* process does not fail.
C21_DisconnectAfterRemovalNoOp ==
    [][(/\ last'.ev \in {"okDisconnectMe", "logoffTimer"}
        /\ last'.id \in connected
        /\ last'.id \notin connected')
          => /\ cDNow' = RemovedFrom(cDNow, last'.id)
             /\ crashed' = crashed
             /\ IF last'.ev = "okDisconnectMe"
                THEN \A e \in sent' :
                        \/ e.ev = "chat message"
                              /\ e.arg = <<last'.a \o " has disconnected">>
                        \/ e.ev = "client-disconnected" /\ e.arg = <<last'.a>>
                ELSE \A e \in sent' : e.ev = "chat message" /\ e.to = last'.id]_vars

\* A member of a hosted room left by okDisconnectMe; its host was told once.
C21_Witness ==
    /\ last.ev = "okDisconnectMe"
    /\ last.id \notin connected
    /\ last.id \notin DOMAIN userName
    /\ Cardinality(sent) = 2
    /\ \E e \in sent : e.ev = "client-disconnected" /\ e.rcv # {}

\* The answer to a host-only chat command that did not come from a host.
Rejection(sid, command) ==
    Emission(sid, "chat message",
             <<IF command = "dcir"
               THEN "Requests to disconnect clients must come from the host."
               ELSE "Requests for room reports must come from the host.">>,
             {sid})

\* C22: when a connection that is not the recorded host of its own room (a
\* member, or a connection in no room) sends the chat command 'dcir' or
\* 'rr', the only emission is the rejection, delivered to the sender alone:
\* no disconnectByServer, no room report, no broadcast of the command; no
\* entry changes and nobody is disconnected.
C22_NonHostCommandRejected ==
    [][(/\ last'.ev = "chat message"
        /\ last'.a \in {"dcir", "rr"}
        /\ Get(hostID, Get(room, last'.id)) # last'.id)
          => /\ sent' = {Rejection(last'.id, last'.a)}
             /\ UNCHANGED <<cDvars, connected, joined>>]_vars

\* A member of a hosted room asked for the eviction of the room's clients.
C22_Witness ==
    /\ last.ev = "chat message"
    /\ last.a = "dcir"
    /\ Truthy(Get(room, last.id))
    /\ Get(hostID, Get(room, last.id)) \in connected \ {last.id}
    /\ sent = {Rejection(last.id, "dcir")}

\* C23: when the host of room R (the connection recorded as host of its own
\* room R) sends 'dcir', disconnectByServer with originator 'host' is
\* delivered to exactly the live connections whose room is R other than the
\* host, each notice to the connection it names; nothing else is emitted,
\* no entry changes and nobody is disconnected.
C23_HostEvictsOwnRoomOnly ==
    [][(/\ last'.ev = "chat message"
        /\ last'.a = "dcir"
        /\ Get(hostID, Get(room, last'.id)) = last'.id)
          => /\ \A e \in sent' :
                    /\ e.ev = "disconnectByServer"
                    /\ e.arg = <<Get(userName, e.to), "host">>
                    /\ e.rcv = {e.to} \cap connected
             /\ UNION {e.rcv : e \in sent'} =
                    {c \in connected \ {last'.id} :
                        Get(room, c) = Get(room, last'.id)}
             /\ UNCHANGED <<cDvars, connected, joined>>]_vars

\* The host of one room evicted its client while another connection, which
\* hosts the other room, got nothing.
C23_Witness ==
    /\ last.ev = "chat message"
    /\ last.a = "dcir"
    /\ IsHost(last.id)
    /\ \E c \in connected \ {last.id} :
          /\ Get(room, c) = Get(room, last.id)
          /\ \E e \in sent : e.rcv = {c}
    /\ \E c \in connected :
          /\ Truthy(Get(room, c))
          /\ Get(room, c) # Get(room, last.id)
          /\ \A e \in sent : c \notin e.rcv

\* C24: a disconnectByServer notice with originator 'host' reaches a
\* connection c only in a step whose event was sent by the live connection
\* recorded as host of c's room.
C24_OnlyHostEvicts ==
    [][\A e \in sent' :
          (e.ev = "disconnectByServer" /\ e.arg[2] = "host")
             => \A c \in e.rcv :
                   /\ last'.id \in connected
                   /\ Get(hostID, Get(room, c)) = last'.id]_vars

\* The live connections whose current room is the room of sid.
RoomMates(sid) == {c \in connected : Get(room, c) = Get(room, sid)}

\* C25: an ordinary chat message from a member of room R is delivered to
\* exactly the live connections whose current room is R, the sender
\* included, with the sender's display label in comma mode appended; 'chat
\* message but not me' is delivered to the same connections but the sender.
C25_ChatReachesExactlyTheRoom ==
    [][(/\ last'.ev \in {"chat message", "chat message but not me"}
        /\ last'.a = "hi"
        /\ Truthy(Get(room, last'.id)))
          => sent' = {Emission(Get(room, last'.id), "chat message",
                               <<"hi (" \o setDisplayName(last'.id, "comma") \o ")">>,
                               IF last'.ev = "chat message"
                               THEN RoomMates(last'.id)
                               ELSE RoomMates(last'.id) \ {last'.id})}]_vars

\* C26: a control message whose 'to' is not a keyword is delivered to exactly
\* one connection: the first connection, in the order of connecting, whose
\* nick name equals 'to' if there is one, otherwise the connection whose
\* user name equals 'to'.
C26_NamedTargetFirstNickMatch ==
    [][(/\ last'.ev = "control message"
        /\ last'.a \notin {"host", "room", "roomNoSender"}
        /\ last'.b # "absent")
          => LET nicks == {c \in connected : Get(nickName, c) = last'.a}
                 first == CHOOSE c \in nicks :
                             \A d \in nicks : SocketNumber(c) <= SocketNumber(d)
                 expected == IF nicks # {} THEN {first}
                             ELSE {c \in connected : Get(userName, c) = last'.a}
             IN  expected # {}
                    => \E e \in sent' : sent' = {e} /\ e.rcv = expected]_vars

\* The routed events and what their target resolves to.
HostAddressed(ev) ==
    \/ ev.ev = "client-mK-event"
    \/ ev.ev \in {"signaling message", "control message"} /\ ev.a = "host"

RoomAddressed(ev) ==
    ev.ev = "control message" /\ ev.a \in {"room", "roomNoSender"}

NameAddressed(ev) ==
    ev.ev \in {"signaling message", "control message"}
        /\ ev.a \notin {"host", "room", "roomNoSender"}

\* Routing finds no target: the sender is in no room or its room has no
\* recorded host (host-addressed), the sender is in no room (room-addressed),
\* or the name is no registered nick name and no registered user name.
NoTarget(ev) ==
    \/ HostAddressed(ev) /\ ~Truthy(Get(hostID, Get(room, ev.id)))
    \/ RoomAddressed(ev) /\ ~Truthy(Get(room, ev.id))
    \/ /\ NameAddressed(ev)
       /\ ev.a \notin DOMAIN id
       /\ ev.ev = "control message"
             => \A c \in DOMAIN userName : Get(nickName, c) # ev.a

\* C27: when the routing of a signaling message, a control message (with a
\* data field) or a client-mK-event finds no target, the event is delivered
\* to no connection, the sender included, and no entry, connection or
\* transport group changes.
C27_NoTargetNoDelivery ==
    [][(/\ last'.ev \in {"signaling message", "control message", "client-mK-event"}
        /\ last'.b # "absent"
        /\ NoTarget(last'))
          => /\ \A e \in sent' : e.rcv = {}
             /\ UNCHANGED <<cDvars, connected, joined, crashed>>]_vars

\* A connection in no room sent a control message to 'host' while another
\* connection was hosting a room: nobody received it.
C27_Witness ==
    /\ last.ev = "control message"
    /\ last.a = "host"
    /\ last.id \notin DOMAIN room
    /\ \E h \in connected \ {last.id} : IsHost(h)
    /\ sent # {}
    /\ \A e \in sent : e.rcv = {}

\* C28: no input is fatal: no handler ends the process with an uncaught
\* error.
C28_NoFatalInput == ~crashed

\* C29: whenever a room has a recorded host, that host is a live connection
\* whose current room is that room.
C29_RecordedHostIsLiveInRoom ==
    \A r \in DOMAIN hostID :
        hostID[r] \in connected /\ Get(room, hostID[r]) = r

\* C30: on the transport disconnect of a named connection c that is a member,
\* not the host, of a room with a recorded host, 'client-disconnected'
\* carrying the user name c held before the step is emitted to the host
\* recorded for c's room before the step, nothing of the step reaches any
\* other connection, and after the step c's entries are gone.
C30_HostToldBeforeRemoval ==
    [][(/\ last'.ev = "disconnect"
        /\ Truthy(Get(userName, last'.id))
        /\ RoomHasHost(Get(room, last'.id))
        /\ Get(hostID, Get(room, last'.id)) # last'.id)
          => LET host == Get(hostID, Get(room, last'.id))
             IN  /\ \E e \in sent' :
                        /\ e.ev = "client-disconnected"
                        /\ e.to = host
                        /\ e.arg = <<Get(userName, last'.id)>>
                        /\ e.rcv = {host} \cap connected
                 /\ \A e \in sent' : e.rcv \subseteq {host}
                 /\ last'.id \notin DOMAIN userName'
                 /\ last'.id \notin DOMAIN room'
                 /\ Get(id', Get(userName, last'.id)) # last'.id]_vars

\* A client of room A disconnected while hosts of A and of B were live: the
\* host of A, and nobody else, was told.
C30_Witness ==
    /\ last.ev = "disconnect"
    /\ last.id \notin DOMAIN userName
    /\ \E h \in connected :
          /\ IsHost(h)
          /\ \E e \in sent : e.ev = "client-disconnected" /\ e.rcv = {h}
          /\ \E g \in connected \ {h} :
                IsHost(g) /\ \A e \in sent : g \notin e.rcv

\* C31: a client-mK-event, or a signaling or control message addressed to
\* 'host', from a sender whose room has a recorded host, is delivered to that
\* host and to no other connection.
C31_HostTrafficReachesExactlyHost ==
    [][(/\ HostAddressed(last')
        /\ last'.b # "absent"
        /\ RoomHasHost(Get(room, last'.id)))
          => /\ sent' # {}
             /\ \A e \in sent' : e.rcv = {Get(hostID, Get(room, last'.id))}]_vars

\* The events that only route.
RoutingEvents ==
    {"echo-from-Client-to-Server", "echo-from-Host-to-Server", "chat message",
     "chat message but not me", "signaling message", "control message",
     "client-mK-event", "clientDisconnectByHost", "shutDown-p2p-deleteClient",
     "command-from-host-to-all-clients"}

\* C32: the ten routing events leave userName, id, nickName, teamName, room,
\* hostID and the name counter unchanged; a step that changes one of them is
\* a connection, a roomJoin, a disconnect, an okDisconnectMe or the logoff
\* alarm of a host.
C32_RoutingLeavesMapsUnchanged ==
    [][/\ last'.ev \in RoutingEvents => UNCHANGED cDvars
       /\ cDvars' # cDvars =>
            \/ last'.ev \in {"connection", "roomJoin", "disconnect", "okDisconnectMe"}
            \/ last'.ev = "logoffTimer" /\ IsHost(last'.id)]_vars

\* A connection asked for the eviction of the registered client u2, which
\* received 'disconnectByServer' and is still registered.
C32_Witness ==
    /\ last.ev = "clientDisconnectByHost"
    /\ \E e \in sent : e.ev = "disconnectByServer" /\ e.rcv = {Get(id, "u2")}
    /\ Get(userName, Get(id, "u2")) = "u2"
    /\ Get(id, "u2") \in DOMAIN room

\* C33: id is the exact inverse of userName: every live connection is the
\* value of id at its user name, and every entry of id names a live
\* connection that holds that user name.
C33_IdInverseOfUserName ==
    /\ \A c \in connected : Get(id, Get(userName, c)) = c
    /\ \A n \in DOMAIN id : id[n] \in connected /\ Get(userName, id[n]) = n

\* The pending alarms of one kind of the connection c: the one its handle
\* refers to and those no handle refers to.
PendingOf(c, kind) ==
    {a \in Handled(c) \cup orphans : a.sid = c /\ a.kind = kind}

\* C34: every connection has at most one pending warning alarm and at most
\* one pending logoff alarm, and no pending alarm is without a handle.
C34_AtMostOneAlarmOfAKind ==
    /\ orphans = {}
    /\ \A c \in AllSockets :
          /\ Cardinality(PendingOf(c, "warning")) <= 1
          /\ Cardinality(PendingOf(c, "logoff")) <= 1

\* A host sent a chat message at minute 40 or later, after alarms had run:
\* both of its alarms were set anew and nothing else of it is pending.
C34_Witness ==
    /\ last.ev = "chat message"
    /\ now >= DefaultIdle_m
    /\ IsHost(last.id)
    /\ PendingOf(last.id, "warning") =
          {[sid |-> last.id, kind |-> "warning", at |-> now + 20]}
    /\ PendingOf(last.id, "logoff") =
          {[sid |-> last.id, kind |-> "logoff", at |-> now + 40]}

\* C35: whenever a host receives 'client-disconnected' naming N, every
\* connection that holds the user name N is removed from the maps in the same
\* step.
C35_ToldOnlyOfRemoved ==
    [][\A e \in sent' :
          (e.ev = "client-disconnected" /\ e.rcv # {})
              => \A c \in DOMAIN userName :
                    userName[c] = e.arg[1] => c \notin DOMAIN userName']_vars

\* The alarms and the idle budget of the connection c.
AlarmsOf(c) == <<Get(warningTimer, c), Get(logoffTimer, c), Get(idleTime_m, c)>>

\* C36: an inbound event other than 'chat message' leaves the alarms and the
\* idle budget of its connection unchanged, and no inbound event of one
\* connection changes the alarms or the idle budget of another connection.
C36_OnlyChatRestartsAlarms ==
    [][/\ last'.ev \in (RoutingEvents \ {"chat message"})
                          \cup {"roomJoin", "disconnect", "okDisconnectMe"}
            => UNCHANGED timerVars
       /\ last'.ev \in RoutingEvents
                          \cup {"connection", "roomJoin", "disconnect", "okDisconnectMe"}
            => /\ orphans' = orphans
               /\ \A c \in AllSockets \ {last'.id} : AlarmsOf(c)' = AlarmsOf(c)]_vars

\* A connection with a pending warning alarm sent 'chat message but not me'
\* to a room mate after minute 0: its alarms are those set when it connected.
C36_Witness ==
    /\ last.ev = "chat message but not me"
    /\ \E e \in sent : e.rcv # {}
    /\ now > 0
    /\ warningTimer[last.id].pending
    /\ logoffTimer[last.id].pending
    /\ logoffTimer[last.id].at < now + DefaultIdle_m

\* The sockets of the grace specification.
LiveSockets == {SocketId(n) : n \in 1..MaxConnLive}

HostingLive(c) == c \in connected /\ IsHost(c)

\* C37, termination: a live connection that is host of its room and never
\* chats eventually is no longer a live host.
C37_EventuallyEvicted ==
    \A c \in LiveSockets : HostingLive(c) ~> ~HostingLive(c)

\* C37, the steps: no budget exceeds 180 minutes, and a live host whose logoff
\* alarm fires while no other connection is live is evicted by that alarm.
C37_LoneHostEvictedAtNextAlarm ==
    [][/\ \A c \in DOMAIN idleTime_m' : idleTime_m'[c] <= IdleCap_m
       /\ (/\ last'.ev = "logoffTimer"
           /\ HostingLive(last'.id)
           /\ connected = {last'.id})
             => last'.id \notin connected']_vars

\* C37: under fair firing of alarms a host that never chats is eventually
\* evicted, after at most 28 extensions, and at its next logoff alarm once no
\* other connection remains.
C37_HostGraceTerminates ==
    C37_EventuallyEvicted /\ C37_LoneHostEvictedAtNextAlarm

\* C38: no connection is the recorded host of two rooms.
C38_HostOfAtMostOneRoom ==
    \A r1, r2 \in DOMAIN hostID : r1 # r2 => hostID[r1] # hostID[r2]

\* C39: 'command-from-host-to-all-clients' from a connection that is not the
\* host of its room is delivered to no other connection.
C39_OnlyHostCommandsRoom ==
    [][(/\ last'.ev = "command-from-host-to-all-clients"
        /\ Get(hostID, Get(room, last'.id)) # last'.id)
          => \A e \in sent' : e.rcv \subseteq {last'.id}]_vars

\* The connection c has been removed: it is disconnected and the maps hold no
\* user name and no room for it.
Removed(c) ==
    /\ c \notin connected
    /\ c \notin DOMAIN userName
    /\ c \notin DOMAIN room

\* C40: an alarm callback of a connection that has already been removed
\* changes no entry of the maps, no connection and no transport group, and
\* delivers nothing to any connection.
C40_LateAlarmHarmless ==
    [][(/\ last'.ev \in {"warningTimer", "logoffTimer"}
        /\ Removed(last'.id))
          => /\ UNCHANGED <<cDvars, connected, joined, crashed>>
             /\ \A e \in sent' : e.rcv = {}]_vars

\* The logoff callback of a removed connection ran while another connection
\* was hosting a room: its notices reached nobody.
C40_Witness ==
    /\ last.ev = "logoffTimer"
    /\ Removed(last.id)
    /\ \E c \in connected : IsHost(c)
    /\ \E e \in sent : e.ev = "disconnectByServer"
    /\ \A e \in sent : e.rcv = {}

====
